---------------------------- MODULE Spec2Model ----------------------------
(***************************************************************************)
(* aiowolframalpha: the asynchronous Wolfram|Alpha v2.0 client             *)
(* (aiowolframalpha/__init__.py).                                          *)
(*                                                                         *)
(* Two layers are modelled.                                                *)
(*   - The document layer: the typed views (Result, Pod, Subpod, Image,    *)
(*     Assumption, Warning) over the mapping xmltodict decodes, with       *)
(*     ErrorHandler, Document.from_doc, Document.__getattr__, xml_bool and *)
(*     the derived accessors of Pod and Result.  Specification SpecDoc     *)
(*     draws a decoded document, constructs the Result and calls the       *)
(*     accessors on it.                                                    *)
(*   - The transport layer: Client.__init__ and Client.query, cut at the   *)
(*     places where the coroutine really suspends.  Specification Spec     *)
(*     runs up to NumCalls query calls, possibly overlapping, on one       *)
(*     Client.                                                             *)
(*                                                                         *)
(* Representation.  A Python value is a tagged record: JStr, JMap, JList,  *)
(* JNone.  A dict is a function from its keys; a view (an instance of a    *)
(* Document subclass, itself a dict) is [cls, m].  The outcome of a call   *)
(* is Ok(value) or Raise(exception, message).                              *)
(***************************************************************************)
EXTENDS Integers, Sequences, FiniteSets, TLC

\* ------------------------------------------------------------------ bounds

\* Most pod elements in a response (a repeated element decodes to a list).
MaxPods == 2
\* Most assumption children in the assumptions container.
MaxChildren == 2
\* Most query calls started on the client, overlapping or not.
NumCalls == 2

\* ------------------------------------------------------------ Python values

JNone == [k |-> "none"]
JStr(s) == [k |-> "str", v |-> s]
JMap(m) == [k |-> "map", v |-> m]
JList(l) == [k |-> "list", v |-> l]

Ok(x) == [ok |-> TRUE, val |-> x]
Raise(e, msg) == [ok |-> FALSE, exc |-> e, msg |-> msg]

\* dict.get(key): the value, or None
dict_get(m, key) == IF key \in DOMAIN m THEN m[key] ELSE JNone


\* --------------------------------------------------------------- json.loads

\* The characters of a string (TLC cannot index a string).  The table covers
\* the attribute values and arguments drawn below.
Chars(s) ==
    CASE s = "true"  -> <<"t", "r", "u", "e">>
      [] s = "false" -> <<"f", "a", "l", "s", "e">>
      [] s = "maybe" -> <<"m", "a", "y", "b", "e">>
      [] s = "True"  -> <<"T", "r", "u", "e">>
      [] s = "null"  -> <<"n", "u", "l", "l">>
      [] s = "1"     -> <<"1">>
      [] s = "0"     -> <<"0">>
      [] s = "10"    -> <<"1", "0">>
      [] s = "01"    -> <<"0", "1">>
      [] s = "-1"    -> <<"-", "1">>
      [] s = " true" -> <<" ", "t", "r", "u", "e">>
      [] s = "truee" -> <<"t", "r", "u", "e", "e">>
      [] s = ""      -> <<>>

JSON_WHITESPACE == {" ", "\t", "\n", "\r"}
JSON_DIGITS == {"0", "1", "2", "3", "4", "5", "6", "7", "8", "9"}
JSON_NONZERO == JSON_DIGITS \ {"0"}

DigitValue(d) ==
    CASE d = "0" -> 0 [] d = "1" -> 1 [] d = "2" -> 2 [] d = "3" -> 3
      [] d = "4" -> 4 [] d = "5" -> 5 [] d = "6" -> 6 [] d = "7" -> 7
      [] d = "8" -> 8 [] d = "9" -> 9

\* WHITESPACE.match(s, idx).end(): the first index at or after i that holds
\* no whitespace (indices from 1).
RECURSIVE json_skip_whitespace(_, _)
json_skip_whitespace(c, i) ==
    IF i <= Len(c) /\ c[i] \in JSON_WHITESPACE
    THEN json_skip_whitespace(c, i + 1)
    ELSE i

json_startswith(c, i, lit) ==
    i + Len(lit) - 1 <= Len(c) /\ SubSeq(c, i, i + Len(lit) - 1) = lit

RECURSIVE json_digits_end(_, _)
json_digits_end(c, i) ==
    IF i <= Len(c) /\ c[i] \in JSON_DIGITS THEN json_digits_end(c, i + 1) ELSE i

RECURSIVE json_int_value(_)
json_int_value(ds) ==
    IF ds = <<>> THEN 0
    ELSE 10 * json_int_value(SubSeq(ds, 1, Len(ds) - 1)) + DigitValue(ds[Len(ds)])

\* json.scanner scan_once at index i: the literals null, true, false and the
\* integer part of NUMBER_RE, -?(0|[1-9]\d*).  Strings, arrays, objects,
\* fractions, exponents, NaN and Infinity start with or need characters the
\* inputs drawn here do not hold.  Gives Ok([val, end]) or "Expecting value".
json_scan_once(c, i) ==
    LET j == IF i <= Len(c) /\ c[i] = "-" THEN i + 1 ELSE i
        expecting == Raise("JSONDecodeError", "Expecting value")
    IN  IF i > Len(c) THEN expecting
        ELSE IF json_startswith(c, i, <<"n", "u", "l", "l">>)
             THEN Ok([val |-> [t |-> "null"], end |-> i + 4])
        ELSE IF json_startswith(c, i, <<"t", "r", "u", "e">>)
             THEN Ok([val |-> [t |-> "bool", b |-> TRUE], end |-> i + 4])
        ELSE IF json_startswith(c, i, <<"f", "a", "l", "s", "e">>)
             THEN Ok([val |-> [t |-> "bool", b |-> FALSE], end |-> i + 5])
        ELSE IF j <= Len(c) /\ c[j] = "0"
             THEN Ok([val |-> [t |-> "int", n |-> 0], end |-> j + 1])
        ELSE IF j <= Len(c) /\ c[j] \in JSON_NONZERO
             THEN LET e == json_digits_end(c, j + 1)
                      n == json_int_value(SubSeq(c, j, e - 1))
                  IN  Ok([val |-> [t |-> "int", n |-> IF j = i THEN n ELSE 0 - n],
                          end |-> e])
        ELSE expecting

\* json.loads(s): JSONDecoder.decode, one value between optional whitespace,
\* "Extra data" when anything follows it.
json_loads(s) ==
    LET c == Chars(s)
        r == json_scan_once(c, json_skip_whitespace(c, 1))
    IN  IF ~r.ok THEN r
        ELSE IF json_skip_whitespace(c, r.val.end) # Len(c) + 1
             THEN Raise("JSONDecodeError", "Extra data")
        ELSE Ok(r.val.val)

\* bool(x) of a decoded JSON value
py_bool(j) ==
    CASE j.t = "bool" -> j.b
      [] j.t = "null" -> FALSE
      [] j.t = "int"  -> j.n # 0

\* xml_bool with a fault: only the literal true is accepted as true and
\* everything that is not the literal false is an error.
xml_bool_strict(str_val) ==
    IF str_val = "true" THEN Ok(TRUE)
    ELSE IF str_val = "false" THEN Ok(FALSE)
    ELSE Raise("JSONDecodeError", "Expecting value")

\* xml_bool(str_val): bool(json.loads(str_val))
xml_bool(str_val) ==
    LET j == json_loads(str_val)
    IN  IF j.ok THEN Ok(py_bool(j.val)) ELSE j


\* ------------------------------------------------------- the document layer

\* A view: an instance of the Document subclass cls over the mapping m.
View(cls, m) == [cls |-> cls, m |-> m]

\* more_itertools.always_iterable(obj, base_type=dict): None gives nothing, a
\* dict gives itself alone, a list gives its elements.  (A string would give
\* its characters; no container node drawn here is a string.)
always_iterable(obj) ==
    CASE obj.k = "none" -> <<>>
      [] obj.k = "map"  -> <<obj>>
      [] obj.k = "list" -> obj.v

\* ErrorHandler._handle_error on the mapping m: returns, or raises
\* Exception('Error {error[code]}: {error[msg]}'.format(**self)).
handle_error(m) ==
    IF "error" \notin DOMAIN m
    THEN Ok(JNone)
    ELSE Raise("Exception",
               "Error " \o m["error"].v["code"].v \o ": " \o m["error"].v["msg"].v)

\* The classes that list ErrorHandler among their bases.
ErrorHandlerClasses == {"Pod", "Result"}

\* construct with a fault: the error check looks at the attribute @error
\* instead of the element error.
construct_attr_error(cls, doc) ==
    IF doc.k # "map"
    THEN Raise("TypeError", "not a mapping")
    ELSE IF cls \in ErrorHandlerClasses /\ "@error" \in DOMAIN doc.v
              /\ doc.v["@error"] = JStr("true")
         THEN Raise("Exception", "Error")
         ELSE Ok(View(cls, doc.v))

\* cls(doc) for a Document subclass: dict.__init__(doc) and, for Pod and
\* Result, ErrorHandler.__init__, which then calls _handle_error.
construct(cls, doc) ==
    IF doc.k # "map"
    THEN Raise("TypeError", "not a mapping")
    ELSE IF cls \in ErrorHandlerClasses /\ ~handle_error(doc.v).ok
         THEN handle_error(doc.v)
         ELSE Ok(View(cls, doc.v))

\* Document.from_doc(doc): map(cls, always_iterable(doc, base_type=dict)), an
\* iterator that constructs a view per item when it is consumed.
from_doc(cls, doc) == [cls |-> cls, items |-> always_iterable(doc)]

\* list(it) of an iterator from_doc gave: the views, or the first failure.
RECURSIVE list_views(_, _)
list_views(cls, items) ==
    IF items = <<>> THEN Ok(<<>>)
    ELSE LET h == construct(cls, Head(items))
             t == list_views(cls, Tail(items))
         IN  IF ~h.ok THEN h
             ELSE IF ~t.ok THEN t
             ELSE Ok(<<h.val>> \o t.val)

\* _attr_types of each class: the class whose from_doc converts the field,
\* or "identity".  (position, numsubpods, height and width, converted by
\* float and int, are in no document drawn here.)
attr_types(cls, name) ==
    CASE cls = "Result" /\ name = "pod"    -> "Pod"
      [] cls = "Pod"    /\ name = "subpod" -> "Subpod"
      [] cls = "Subpod" /\ name = "img"    -> "Image"
      [] OTHER                            -> "identity"

\* Document.__getattr__(name) on a view of class cls over m.
Document_getattr(cls, m, name) ==
    LET type == attr_types(cls, name)
        attr_name == "@" \o name
    IN  IF name \in DOMAIN m \/ attr_name \in DOMAIN m
        THEN LET val == IF name \in DOMAIN m THEN m[name] ELSE m[attr_name]
             IN  Ok(IF type = "identity" THEN val ELSE from_doc(type, val))
        ELSE Raise("AttributeError", name)

\* A property whose getter gave r: when the getter raises AttributeError,
\* Python's attribute lookup goes on to __getattr__(name).
property(cls, m, name, r) ==
    IF ~r.ok /\ r.exc = "AttributeError"
    THEN Document_getattr(cls, m, name)
    ELSE r

\* Subpod.img
Subpod_img(m) == Document_getattr("Subpod", m, "img")

\* Pod.subpod
Pod_subpod(m) == Document_getattr("Pod", m, "subpod")

\* Pod.subpods
Pod_subpods(m) == property("Pod", m, "subpods", Pod_subpod(m))

\* Pod_primary with a fault: the attribute is read without the test that it is
\* there.
Pod_primary_unguarded(m) ==
    IF "@primary" \in DOMAIN m
    THEN xml_bool(m["@primary"].v)
    ELSE Raise("KeyError", "@primary")

\* Pod.primary: '@primary' in self and xml_bool(self['@primary'])
Pod_primary(m) ==
    IF "@primary" \in DOMAIN m
    THEN xml_bool(m["@primary"].v)
    ELSE Ok(FALSE)

\* Pod.text: next(iter(self.subpod)).plaintext
Pod_text(m) ==
    property("Pod", m, "text",
        LET sp == Pod_subpod(m)
        IN  IF ~sp.ok THEN sp
            ELSE IF sp.val.items = <<>> THEN Raise("StopIteration", "")
            ELSE LET first == construct("Subpod", Head(sp.val.items))
                 IN  IF ~first.ok THEN first
                     ELSE Document_getattr("Subpod", first.val.m, "plaintext"))

\* Result.pods
Result_pods(m) == property("Result", m, "pods", Document_getattr("Result", m, "pod"))

\* Result.assumptions: Assumption.from_doc(self.get('assumptions'))
Result_assumptions(m) == Ok(from_doc("Assumption", dict_get(m, "assumptions")))

\* Result.warnings: Warning.from_doc(self.get('warnings'))
Result_warnings(m) == Ok(from_doc("Warning", dict_get(m, "warnings")))

\* Result.info: itertools.chain(self.pods, self.assumptions, self.warnings),
\* here the three iterators in order.
Result_info(m) ==
    property("Result", m, "info",
        LET p == Result_pods(m)
        IN  IF ~p.ok THEN p
            ELSE Ok(<<p.val, Result_assumptions(m).val, Result_warnings(m).val>>))

\* list(chain): the iterators consumed one after the other.
RECURSIVE list_chain(_)
list_chain(its) ==
    IF its = <<>> THEN Ok(<<>>)
    ELSE LET h == list_views(Head(its).cls, Head(its).items)
             t == list_chain(Tail(its))
         IN  IF ~h.ok THEN h
             ELSE IF ~t.ok THEN t
             ELSE Ok(h.val \o t.val)

\* list(result): Result.__iter__ returns self.info
Result_iter(m) ==
    LET i == Result_info(m)
    IN  IF ~i.ok THEN i ELSE list_chain(i.val)

\* len(result): Result.__len__, sum(1 for _ in self.info)
Result_len(m) ==
    LET l == Result_iter(m)
    IN  IF ~l.ok THEN l ELSE Ok(Len(l.val))

\* The generator of Result.results consumed over the pod items: each pod is
\* constructed, then pod.primary or pod.title == 'Result' decides.
RECURSIVE results_gen(_)
results_gen(items) ==
    IF items = <<>> THEN Ok(<<>>)
    ELSE LET pod == construct("Pod", Head(items))
             primary == Pod_primary(pod.val.m)
             title == Document_getattr("Pod", pod.val.m, "title")
             rest == results_gen(Tail(items))
         IN  IF ~pod.ok THEN pod
             ELSE IF ~primary.ok THEN primary
             ELSE IF ~primary.val /\ ~title.ok THEN title
             ELSE IF ~rest.ok THEN rest
             ELSE IF primary.val \/ title.val = JStr("Result")
                  THEN Ok(<<pod.val>> \o rest.val)
                  ELSE rest

\* list(result.results)
Result_results(m) ==
    LET p == property("Result", m, "results", Result_pods(m))
    IN  IF ~p.ok THEN p ELSE results_gen(p.val.items)

\* The dict comprehension of Result.details over the pod items:
\* {pod.title: pod.plainText for pod in self.pods}, a later title replacing
\* an earlier one.
RECURSIVE details_comp(_, _)
details_comp(items, acc) ==
    IF items = <<>> THEN Ok(acc)
    ELSE LET pod == construct("Pod", Head(items))
             title == Document_getattr("Pod", pod.val.m, "title")
             text == Document_getattr("Pod", pod.val.m, "plainText")
         IN  IF ~pod.ok THEN pod
             ELSE IF ~title.ok THEN title
             ELSE IF ~text.ok THEN text
             ELSE details_comp(Tail(items),
                      [t \in DOMAIN acc \cup {title.val.v} |->
                          IF t = title.val.v THEN text.val ELSE acc[t]])

\* Result.details
Result_details(m) ==
    property("Result", m, "details",
        LET p == Result_pods(m)
        IN  IF ~p.ok THEN p ELSE details_comp(p.val.items, <<>>))

\* xmltodict.parse(stream, dict_constructor=dict) of a response body.  The
\* decoder is outside this repository: a body is either malformed or has a
\* root element of a given name and decoded content.
xmltodict_parse(stream) ==
    IF ~stream.wellformed
    THEN Raise("ExpatError", "syntax error")
    ELSE Ok(stream.root :> stream.content)

\* Result(stream): Result.__init__, the decoded queryresult element handed to
\* ErrorHandler.__init__.
Result_init(stream) ==
    LET parsed == xmltodict_parse(stream)
    IN  IF ~parsed.ok THEN parsed
        ELSE IF "queryresult" \notin DOMAIN parsed.val
             THEN Raise("KeyError", "queryresult")
        ELSE construct("Result", parsed.val["queryresult"])


\* ------------------------------------------------- the documents drawn

\* Marks a key the mapping does not hold.
Absent == [k |-> "absent"]

\* The mapping with key when the node is there, the empty mapping otherwise.
Field(key, node) == IF node = Absent THEN <<>> ELSE key :> node

\* The error element the service sends: code and msg children.
ErrorBlocks ==
    { JMap("code" :> JStr("1") @@ "msg" :> JStr("Invalid appid")),
      JMap("code" :> JStr("2") @@ "msg" :> JStr("Appid missing")) }

ImageMap(src) == "@src" :> JStr(src) @@ "@alt" :> JStr("alt")

\* subpod elements: plain text, with no img, one img or two.
SubpodMap(text, img) == "plaintext" :> JStr(text) @@ Field("img", img)

SubpodPlain == JMap(SubpodMap("T1", Absent))
SubpodImage == JMap(SubpodMap("T2", JMap(ImageMap("a.gif"))))
SubpodImages ==
    JMap(SubpodMap("T3", JList(<<JMap(ImageMap("a.gif")), JMap(ImageMap("b.gif"))>>)))

\* The subpod node of a pod: one element decodes to a mapping, repeated
\* elements to a list.
SubpodNodes ==
    { SubpodPlain, SubpodImage, JList(<<SubpodImages, SubpodPlain>>) }

PodMap(title, primary, subpod, error) ==
    "@id" :> JStr("pod") @@ Field("@title", title) @@ Field("@primary", primary)
        @@ Field("subpod", subpod) @@ Field("error", error)

\* The title and @primary attribute of the pods drawn.
TitlePrimary ==
    { <<JStr("Result"), Absent>>, <<JStr("Input"), Absent>>, <<Absent, Absent>>,
      <<JStr("Input"), JStr("true")>>, <<Absent, JStr("true")>>,
      <<JStr("Result"), JStr("false")>>, <<JStr("Input"), JStr("false")>>,
      <<JStr("Input"), JStr("maybe")>>, <<JStr("Input"), JStr("1")>>,
      <<JStr("Input"), JStr("0")>> }

PodMaps ==
    { PodMap(tp[1], tp[2], SubpodPlain, Absent) : tp \in TitlePrimary }
    \cup { PodMap(JStr("Input"), Absent, sp, Absent) : sp \in SubpodNodes \cup {Absent} }
    \cup { PodMap(JStr("Result"), Absent, SubpodPlain, e) : e \in ErrorBlocks }
    \cup { PodMap(JStr("Result"), Absent, SubpodPlain, Absent) @@ "@error" :> JStr("true") }

\* The pod node of a response: no pod element, an empty one, one pod, or a
\* list of 2..MaxPods pods.
PodNodes ==
    { Absent, JNone } \cup { JMap(p) : p \in PodMaps }
    \cup UNION { { JList([i \in 1..n |-> JMap(f[i])]) : f \in [1..n -> PodMaps] }
                 : n \in 2..MaxPods }

\* A few pod nodes, for the documents that vary the containers.
SomePodNodes ==
    { Absent,
      JMap(PodMap(JStr("Result"), Absent, SubpodPlain, Absent)),
      JList(<<JMap(PodMap(JStr("Input"), Absent, SubpodPlain, Absent)),
              JMap(PodMap(JStr("Result"), JStr("true"), SubpodImage, Absent))>>) }

\* The i-th child element of an assumptions or warnings container.
Child(tag, i) == JMap("@type" :> JStr(tag) @@ "@id" :> JStr(ToString(i)))

\* The container element with n children named tag: one child decodes to a
\* mapping, several to a list.
Container(tag, n) ==
    JMap("@count" :> JStr(ToString(n))
         @@ tag :> (IF n = 1 THEN Child(tag, 1)
                    ELSE JList([i \in 1..n |-> Child(tag, i)])))

AssumptionNodes ==
    { Absent, JNone } \cup { Container("assumption", n) : n \in 1..MaxChildren }

WarningNodes ==
    { Absent } \cup { Container("warning", n) : n \in 1..MaxChildren }

\* The decoded queryresult element.
DocMap(pod, assumptions, warnings, error, errorattr) ==
    "@success" :> JStr("true") @@ "@error" :> JStr(errorattr)
        @@ Field("pod", pod) @@ Field("assumptions", assumptions)
        @@ Field("warnings", warnings) @@ Field("error", error)

Docs ==
    { DocMap(p, Absent, Absent, Absent, "false") : p \in PodNodes }
    \cup { DocMap(p, Container("assumption", 1), Container("warning", 1), Absent, "false")
           : p \in PodNodes }
    \cup { DocMap(p, a, w, Absent, "false")
           : p \in SomePodNodes, a \in AssumptionNodes, w \in WarningNodes }
    \cup { DocMap(p, Absent, Absent, e, "true") : p \in SomePodNodes, e \in ErrorBlocks }
    \cup { DocMap(p, Absent, Absent, Absent, "true") : p \in SomePodNodes }

\* A response body: malformed XML, or a root element and its decoded content.
Stream(root, content) == [wellformed |-> TRUE, root |-> root, content |-> content]
Malformed == [wellformed |-> FALSE]

Streams ==
    { Stream("queryresult", JMap(d)) : d \in Docs }
    \cup { Malformed, Stream("html", JMap(DocMap(Absent, Absent, Absent, Absent, "false"))),
           Stream("queryresult", JNone) }

\* The strings handed to xml_bool.
BoolStrings ==
    { "true", "false", "maybe", "True", "null", "1", "0", "10", "01", "-1",
      " true", "truee", "" }


\* -------------------------------------------------------------- the state

VARIABLES
    \* the document layer
    stream,       \* the response body handed to Result(stream)
    result,       \* what Result(stream) gave: Ok(view) or the exception
    op,           \* the last call made: its name and arguments
    out,          \* what the last call gave
    \* the transport layer: one Client and the query calls on it
    session,      \* Client.session
    supplied,     \* the session argument of Client.__init__
    created,      \* the sessions create_http_session has returned
    pc,           \* where each query call stands
    usedSession,  \* the session each call issued its GET on
    header,       \* the Content-Type header of each call's response
    bodyRead,     \* whether the call has called resp.text
    parsed,       \* whether the call has handed a body to Result
    outcome,      \* what the call returned or raised
    sawNone,      \* whether the call found self.session to be None
    prior,        \* the calls that had ended when the call started
    resumed       \* whether the event loop has resumed the call after a suspension

docvars == <<stream, result, op, out>>
clientvars ==
    <<session, supplied, created, pc, usedSession, header, bodyRead, parsed,
      outcome, sawNone, prior, resumed>>
vars == <<docvars, clientvars>>

Op(name, i, j, s) == [name |-> name, i |-> i, j |-> j, s |-> s]
NoOp == Op("none", 0, 0, "")
NotConstructed == Raise("NotConstructed", "")

\* ------------------------------------------- the document layer's calls

\* list(x) of an accessor's iterator
Consume(r) == IF ~r.ok THEN r ELSE list_views(r.val.cls, r.val.items)

\* The pod items behind result.pods ("none" when the accessor raises).
PodItems == IF Result_pods(result.val.m).ok
            THEN Result_pods(result.val.m).val.items ELSE <<>>

\* The subpod items behind the i-th pod's subpods.
SubpodItems(i) ==
    IF Pod_subpods(PodItems[i].v).ok THEN Pod_subpods(PodItems[i].v).val.items ELSE <<>>

Call(name, i, j, s, r) == /\ op' = Op(name, i, j, s)
                          /\ out' = r
                          /\ UNCHANGED <<stream, result, clientvars>>

\* A call is made on the Result just constructed.  No call changes the
\* document or a view, so calls made one after the other give what each
\* gives alone.
Fresh == result.ok /\ op.name = "Result"

\* Result(stream)
NewResult ==
    /\ result = NotConstructed
    /\ result' = Result_init(stream)
    /\ op' = Op("Result", 0, 0, "")
    /\ out' = result'
    /\ UNCHANGED <<stream, clientvars>>

ReadPods == Fresh /\ Call("pods", 0, 0, "", Consume(Result_pods(result.val.m)))

ReadAssumptions ==
    Fresh /\ Call("assumptions", 0, 0, "", Consume(Result_assumptions(result.val.m)))

ReadWarnings ==
    Fresh /\ Call("warnings", 0, 0, "", Consume(Result_warnings(result.val.m)))

Iterate == Fresh /\ Call("iter", 0, 0, "", Result_iter(result.val.m))

Length == Fresh /\ Call("len", 0, 0, "", Result_len(result.val.m))

ReadResults == Fresh /\ Call("results", 0, 0, "", Result_results(result.val.m))

ReadDetails == Fresh /\ Call("details", 0, 0, "", Result_details(result.val.m))

\* Pod(item), the i-th view the pods iterator constructs
NewPod(i) ==
    /\ Fresh
    /\ i \in 1..Len(PodItems)
    /\ Call("Pod", i, 0, "", construct("Pod", PodItems[i]))

PodBuilt(i) == /\ Fresh
               /\ i \in 1..Len(PodItems)
               /\ construct("Pod", PodItems[i]).ok

ReadPrimary(i) == PodBuilt(i) /\ Call("primary", i, 0, "", Pod_primary(PodItems[i].v))

ReadSubpods(i) ==
    PodBuilt(i) /\ Call("subpods", i, 0, "", Consume(Pod_subpods(PodItems[i].v)))

ReadText(i) == PodBuilt(i) /\ Call("text", i, 0, "", Pod_text(PodItems[i].v))

\* subpod.img of the j-th subpod of the i-th pod
ReadImg(i, j) ==
    /\ PodBuilt(i)
    /\ j \in 1..Len(SubpodItems(i))
    /\ Call("img", i, j, "", Consume(Subpod_img(SubpodItems(i)[j].v)))

\* xml_bool(s).  It is a function of the module and reads no state; it is
\* called here in the states where the construction raised.
CallXmlBool(s) ==
    /\ op.name = "Result"
    /\ ~result.ok
    /\ Call("xml_bool", 0, 0, s, xml_bool(s))

ClientIdle ==
    /\ session = "None"
    /\ supplied = "None"
    /\ created = {}
    /\ pc = <<>>
    /\ usedSession = <<>>
    /\ header = <<>>
    /\ bodyRead = <<>>
    /\ parsed = <<>>
    /\ outcome = <<>>
    /\ sawNone = <<>>
    /\ prior = <<>>
    /\ resumed = <<>>

InitDoc ==
    /\ stream \in Streams
    /\ result = NotConstructed
    /\ op = NoOp
    /\ out = NotConstructed
    /\ ClientIdle

NextDoc ==
    \/ NewResult
    \/ ReadPods
    \/ ReadAssumptions
    \/ ReadWarnings
    \/ Iterate
    \/ Length
    \/ ReadResults
    \/ ReadDetails
    \/ \E i \in 1..MaxPods : NewPod(i)
    \/ \E i \in 1..MaxPods : ReadPrimary(i)
    \/ \E i \in 1..MaxPods : ReadSubpods(i)
    \/ \E i \in 1..MaxPods : ReadText(i)
    \/ \E i \in 1..MaxPods, j \in 1..MaxPods : ReadImg(i, j)
    \/ \E s \in BoolStrings : CallXmlBool(s)

SpecDoc == InitDoc /\ [][NextDoc]_vars


\* ----------------------------------------- the claims on the document layer

\* The stream decodes to a queryresult mapping.
IsDoc == /\ stream.wellformed
         /\ stream.root = "queryresult"
         /\ stream.content.k = "map"

\* The node under key, or Absent.
NodeOf(m, key) == IF key \in DOMAIN m THEN m[key] ELSE Absent

\* The mappings a node stands for: none when it is absent or empty, itself
\* when it is one mapping, its elements in order when it is a list.
ItemsOf(node) ==
    IF node.k = "list" THEN node.v
    ELSE IF node.k = "map" THEN <<node>>
    ELSE <<>>

\* One view of class cls per mapping of the node, in document order.
ViewsOf(cls, node) ==
    [i \in 1..Len(ItemsOf(node)) |-> View(cls, ItemsOf(node)[i].v)]

NoErrorBlock(m) == "error" \notin DOMAIN m

\* No error block at the top level nor in any pod.
ErrorFree(m) ==
    /\ NoErrorBlock(m)
    /\ \A i \in 1..Len(ItemsOf(NodeOf(m, "pod"))) :
           NoErrorBlock(ItemsOf(NodeOf(m, "pod"))[i].v)

\* The calls that read a field of the Result, and of a Pod or Subpod.
ResultReads == {"pods", "assumptions", "warnings", "iter", "len", "results", "details"}
PodReads == {"primary", "subpods", "text", "img"}

\* The construction over m gave r as claimed: it fails exactly when m holds
\* the key error, then with the message made of the block's code and msg.
ConstructedAsClaimed(cls, m, r) ==
    /\ r.ok <=> "error" \notin DOMAIN m
    /\ r.ok => r.val = View(cls, m)
    /\ ~r.ok => r = Raise("Exception",
                          "Error " \o m["error"].v["code"].v \o ": "
                              \o m["error"].v["msg"].v)

\* C1: constructing a Result or a Pod over a decoded mapping fails if and
\* only if the mapping holds the key error; the message is then exactly
\* "Error <code>: <msg>"; a field of a view is read only after its
\* construction succeeded, so never on a mapping that holds an error block.
\* The attribute @error alone does not make the construction fail.
C1_ErrorFailsConstruction ==
    /\ (op.name = "Result" /\ IsDoc) => ConstructedAsClaimed("Result", stream.content.v, out)
    /\ op.name = "Pod" => ConstructedAsClaimed("Pod", PodItems[op.i].v, out)
    /\ op.name \in ResultReads \cup PodReads =>
           result.ok /\ NoErrorBlock(stream.content.v)
    /\ op.name \in PodReads => NoErrorBlock(PodItems[op.i].v)

\* C1, witness: a Result construction that failed with the service's code
\* and message.
C1_Witness ==
    /\ op.name = "Result"
    /\ ~out.ok
    /\ out.msg = "Error 1: Invalid appid"

\* The node an accessor call wraps, and the class it wraps it as.
AccessorNode ==
    CASE op.name = "pods"        -> NodeOf(result.val.m, "pod")
      [] op.name = "subpods"     -> NodeOf(PodItems[op.i].v, "subpod")
      [] op.name = "img"         -> NodeOf(SubpodItems(op.i)[op.j].v, "img")
      [] op.name = "assumptions" -> NodeOf(result.val.m, "assumptions")
      [] op.name = "warnings"    -> NodeOf(result.val.m, "warnings")

AccessorClass ==
    CASE op.name = "pods"        -> "Pod"
      [] op.name = "subpods"     -> "Subpod"
      [] op.name = "img"         -> "Image"
      [] op.name = "assumptions" -> "Assumption"
      [] op.name = "warnings"    -> "Warning"

\* C4: every child-wrapping accessor gives a sequence of views for every
\* shape of the node: n views in order for a list of n mappings, one view
\* equal to the mapping for a single mapping, none for an absent node; it
\* never fails because the node is absent.  (Stated for nodes that hold no
\* error block.)
C4_AccessorsGiveSequences ==
    (/\ op.name \in {"pods", "subpods", "img", "assumptions", "warnings"}
     /\ \A i \in 1..Len(ItemsOf(AccessorNode)) : NoErrorBlock(ItemsOf(AccessorNode)[i].v))
    => out = Ok(ViewsOf(AccessorClass, AccessorNode))

\* The decoded outcome of xml_bool or Pod.primary: true, false, a decoding
\* error, or another exception.
Verdict(r) ==
    IF r.ok THEN (IF r.val THEN "true" ELSE "false")
    ELSE IF r.exc = "JSONDecodeError" THEN "error"
    ELSE "other"

\* What bool(json.loads(s)) is for the strings drawn: the truth value of the
\* JSON document s, or a decoding error when s is no JSON document.
ExpectedBool(s) ==
    CASE s \in {"true", "1", "10", "-1", " true"} -> "true"
      [] s \in {"false", "0", "null"}              -> "false"
      [] OTHER                                     -> "error"

\* The pods of m each carry a title and an @primary that is absent or a JSON
\* document.
PodsReadable(m) ==
    \A i \in 1..Len(ItemsOf(NodeOf(m, "pod"))) :
        LET pod == ItemsOf(NodeOf(m, "pod"))[i].v
        IN  /\ "@title" \in DOMAIN pod
            /\ "@primary" \in DOMAIN pod => ExpectedBool(pod["@primary"].v) # "error"

\* The pod's primary flag is true, or its title is "Result".
IsResultPod(v) ==
    \/ "@primary" \in DOMAIN v.m /\ ExpectedBool(v.m["@primary"].v) = "true"
    \/ "@title" \in DOMAIN v.m /\ v.m["@title"] = JStr("Result")

FirstText(pod) == ItemsOf(NodeOf(pod, "subpod"))[1].v["plaintext"]

\* The pods each have a title and at least one subpod with plain text.
PodsTitledWithText(m) ==
    \A i \in 1..Len(ItemsOf(NodeOf(m, "pod"))) :
        LET pod == ItemsOf(NodeOf(m, "pod"))[i].v
        IN  /\ "@title" \in DOMAIN pod
            /\ Len(ItemsOf(NodeOf(pod, "subpod"))) >= 1

\* The mapping from each pod title to the first subpod's plain text of the
\* last pod with that title.
DetailsOf(pods) ==
    LET titles == { pods[i].v["@title"].v : i \in 1..Len(pods) }
        last(t) == CHOOSE i \in 1..Len(pods) :
                       /\ pods[i].v["@title"].v = t
                       /\ \A j \in 1..Len(pods) : pods[j].v["@title"].v = t => j <= i
    IN  [t \in titles |-> FirstText(pods[last(t)].v)]

\* C6: for every error-free Result whose pods each have a title and at least
\* one subpod, details maps exactly the pod titles, each to the plain text of
\* the first subpod of the last pod with that title.  (Stated for responses
\* that hold a pod element.)
C6_DetailsByTitle ==
    (/\ op.name = "details"
     /\ "pod" \in DOMAIN result.val.m
     /\ ErrorFree(result.val.m)
     /\ PodsTitledWithText(result.val.m))
    => out = Ok(DetailsOf(ItemsOf(result.val.m["pod"])))

\* The children named tag of a container node.
ChildrenOf(container, tag) ==
    IF container.k = "map" THEN NodeOf(container.v, tag) ELSE Absent

\* C7: assumptions gives one Assumption view per child of the assumptions
\* container, in order, and none when the container is absent; warnings
\* does the same for the warnings container with Warning views.
C7_OneViewPerChild ==
    /\ op.name = "assumptions" =>
           out = Ok(ViewsOf("Assumption",
                            ChildrenOf(NodeOf(result.val.m, "assumptions"), "assumption")))
    /\ op.name = "warnings" =>
           out = Ok(ViewsOf("Warning",
                            ChildrenOf(NodeOf(result.val.m, "warnings"), "warning")))

\* The views iterating a Result is claimed to give: the pods, then what
\* assumptions gives, then what warnings gives.
InfoOf(m) ==
    ViewsOf("Pod", NodeOf(m, "pod"))
        \o Consume(Result_assumptions(m)).val
        \o Consume(Result_warnings(m)).val

\* C8: for every response without error blocks, also one without pod
\* element, iterating the Result gives the pods, then the assumptions, then
\* the warnings, and len(result) is the number of them.
C8_IterationAndLength ==
    /\ (op.name = "iter" /\ ErrorFree(result.val.m)) => out = Ok(InfoOf(result.val.m))
    /\ (op.name = "len" /\ ErrorFree(result.val.m)) => out = Ok(Len(InfoOf(result.val.m)))

Calls == 1..NumCalls

\* The content type query asserts.
XmlContentType == "text/xml;charset=utf-8"

\* The Content-Type headers a response may carry; NoHeader stands for a
\* response without the header.
NoHeader == "<no header>"
ContentTypes ==
    { XmlContentType, "application/json", "text/xml", "text/xml; charset=utf-8",
      "TEXT/XML;CHARSET=UTF-8", NoHeader }

\* The bodies a response may carry: malformed XML, an answer with one pod
\* titled Result, an answer without pod, a service error.
Bodies ==
    { Malformed,
      Stream("queryresult",
             JMap(DocMap(JMap(PodMap(JStr("Result"), Absent, SubpodPlain, Absent)),
                         Absent, Absent, Absent, "false"))),
      Stream("queryresult", JMap(DocMap(Absent, Absent, Absent, Absent, "false"))),
      Stream("queryresult",
             JMap(DocMap(Absent, Absent, Absent,
                         JMap("code" :> JStr("1") @@ "msg" :> JStr("Invalid appid")),
                         "true"))) }

Pending == Raise("Pending", "")

\* create_http_session(): a new aiohttp.ClientSession, named after the call
\* that asked for it.  The coroutine holds no await: awaiting it runs it to
\* its return without giving control to the event loop.
create_http_session(p) == "session" \o ToString(p)

\* Client(app_id, session=s)
Client_init(s) ==
    /\ session = s
    /\ supplied = s
    /\ created = {}
    /\ pc = [p \in Calls |-> "idle"]
    /\ usedSession = [p \in Calls |-> "None"]
    /\ header = [p \in Calls |-> "unset"]
    /\ bodyRead = [p \in Calls |-> FALSE]
    /\ parsed = [p \in Calls |-> FALSE]
    /\ outcome = [p \in Calls |-> Pending]
    /\ sawNone = [p \in Calls |-> FALSE]
    /\ prior = [p \in Calls |-> {}]
    /\ resumed = [p \in Calls |-> FALSE]

\* The call issues its GET on session s and suspends in session.get.
IssueGet(p, s) ==
    /\ usedSession' = [usedSession EXCEPT ![p] = s]
    /\ pc' = [pc EXCEPT ![p] = "get"]
    /\ prior' = [prior EXCEPT ![p] = { q \in Calls : pc[q] = "done" }]
    /\ UNCHANGED <<supplied, header, bodyRead, parsed, outcome, docvars>>

\* query_start with a fault: awaiting create_http_session suspends the call,
\* which stores the session when it resumes.
query_start_suspending(p) ==
    \/ /\ pc[p] = "idle"
       /\ session = "None"
       /\ pc' = [pc EXCEPT ![p] = "create"]
       /\ sawNone' = [sawNone EXCEPT ![p] = TRUE]
       /\ UNCHANGED <<session, supplied, created, usedSession, header, bodyRead,
                      parsed, outcome, prior, resumed, docvars>>
    \/ /\ pc[p] = "idle"
       /\ session # "None"
       /\ UNCHANGED <<session, created, sawNone, resumed>>
       /\ IssueGet(p, session)
    \/ /\ pc[p] = "create"
       /\ session' = create_http_session(p)
       /\ created' = created \cup {create_http_session(p)}
       /\ resumed' = [resumed EXCEPT ![p] = TRUE]
       /\ UNCHANGED sawNone
       /\ IssueGet(p, create_http_session(p))

\* query_start with a fault: the test that the client holds no session is
\* dropped, every call creates and stores a session.
query_start_always_creates(p) ==
    /\ pc[p] = "idle"
    /\ session' = create_http_session(p)
    /\ created' = created \cup {create_http_session(p)}
    /\ sawNone' = [sawNone EXCEPT ![p] = session = "None"]
    /\ UNCHANGED resumed
    /\ IssueGet(p, create_http_session(p))

\* Client.query up to its first suspension: the parameters are chained (they
\* bear on no state kept here), a session is created and stored when the
\* client holds none, and the GET is issued on the client's session.
query_start(p) ==
    /\ pc[p] = "idle"
    /\ session' = IF session = "None" THEN create_http_session(p) ELSE session
    /\ created' = IF session = "None" THEN created \cup {create_http_session(p)}
                  ELSE created
    /\ sawNone' = [sawNone EXCEPT ![p] = session = "None"]
    /\ UNCHANGED resumed
    /\ IssueGet(p, session')

\* The call ends raising the exception.
Fail(p, exc, msg) ==
    /\ outcome' = [outcome EXCEPT ![p] = Raise(exc, msg)]
    /\ pc' = [pc EXCEPT ![p] = "done"]

\* session.get raises (a connection error): query raises it.
query_get_fails(p) ==
    /\ pc[p] = "get"
    /\ Fail(p, "ClientError", "")
    /\ resumed' = [resumed EXCEPT ![p] = TRUE]
    /\ UNCHANGED <<session, supplied, created, usedSession, header, bodyRead,
                   parsed, sawNone, prior, docvars>>

\* query_response with a fault: the assert on the content type is dropped.
query_response_unchecked(p) ==
    /\ pc[p] = "get"
    /\ \E h \in ContentTypes :
          /\ header' = [header EXCEPT ![p] = h]
          /\ bodyRead' = [bodyRead EXCEPT ![p] = TRUE]
          /\ pc' = [pc EXCEPT ![p] = "text"]
          /\ UNCHANGED outcome
    /\ resumed' = [resumed EXCEPT ![p] = TRUE]
    /\ UNCHANGED <<session, supplied, created, usedSession, parsed, sawNone,
                   prior, docvars>>

\* session.get returns the response: the Content-Type header is read and
\* asserted to be the XML content type; then resp.text("utf-8") is called
\* and the call suspends in it.  (The assert statement is executed: the
\* interpreter runs without -O.)
query_response(p) ==
    /\ pc[p] = "get"
    /\ \E h \in ContentTypes :
          /\ header' = [header EXCEPT ![p] = h]
          /\ IF h = NoHeader
             THEN Fail(p, "KeyError", "Content-Type") /\ UNCHANGED bodyRead
             ELSE IF h # XmlContentType
             THEN Fail(p, "AssertionError", "") /\ UNCHANGED bodyRead
             ELSE /\ bodyRead' = [bodyRead EXCEPT ![p] = TRUE]
                  /\ pc' = [pc EXCEPT ![p] = "text"]
                  /\ UNCHANGED outcome
    /\ resumed' = [resumed EXCEPT ![p] = TRUE]
    /\ UNCHANGED <<session, supplied, created, usedSession, parsed, sawNone,
                   prior, docvars>>

\* resp.text returns the body: Result(body) is constructed and returned, or
\* what it raises is raised.
query_body(p) ==
    /\ pc[p] = "text"
    /\ \E b \in Bodies :
          /\ parsed' = [parsed EXCEPT ![p] = TRUE]
          /\ outcome' = [outcome EXCEPT ![p] = Result_init(b)]
    /\ pc' = [pc EXCEPT ![p] = "done"]
    /\ UNCHANGED <<session, supplied, created, usedSession, header, bodyRead,
                   sawNone, prior, resumed, docvars>>

DocIdle ==
    /\ stream = Malformed
    /\ result = NotConstructed
    /\ op = NoOp
    /\ out = NotConstructed

\* The client is constructed without a session or with the caller's.
Init ==
    /\ \E s \in {"None", "session0"} : Client_init(s)
    /\ DocIdle

Next ==
    \E p \in Calls :
        \/ query_start(p)
        \/ query_get_fails(p)
        \/ query_response(p)
        \/ query_body(p)

Spec == Init /\ [][Next]_vars


\* ---------------------------------------- the claims on the transport layer

\* C2: in every execution of query, a response whose Content-Type is not
\* exactly text/xml;charset=utf-8 makes the call fail before resp.text is
\* called and before any body is handed to Result; a call reads the body,
\* parses it or returns a Result only when the content type was the XML one.
C2_ContentTypeCheckedFirst ==
    \A p \in Calls :
        /\ (bodyRead[p] \/ parsed[p] \/ outcome[p].ok) => header[p] = XmlContentType
        /\ header[p] \notin {"unset", XmlContentType} =>
               /\ pc[p] = "done"
               /\ ~outcome[p].ok
               /\ outcome[p].exc \in {"AssertionError", "KeyError"}
               /\ ~bodyRead[p]
               /\ ~parsed[p]

\* C2, witness: a call whose response declared application/json has ended
\* with the assertion failing.
C2_Witness ==
    \E p \in Calls :
        /\ header[p] = "application/json"
        /\ pc[p] = "done"
        /\ outcome[p].exc = "AssertionError"

\* C3: a session is created only by a call that finds the client holding
\* none, and that call stores it; once the client holds a session no step,
\* of a failing call either, replaces or clears it; every call issues its
\* request on the session the client holds.
C3_SessionCreatedOnceAndKept ==
    [][ /\ created' # created =>
               /\ session = "None"
               /\ session' \notin created
               /\ created' = created \cup {session'}
        /\ session # "None" => session' = session
        /\ \A p \in Calls :
               (pc[p] = "idle" /\ pc'[p] # "idle") =>
                   /\ usedSession'[p] = session'
                   /\ session' # "None"
      ]_vars

\* C3, witness: a call that created the session failed, and a call started
\* after it had ended issued its request on that same session.
C3_Witness ==
    \E p, q \in Calls :
        /\ p \in prior[q]
        /\ sawNone[p]
        /\ ~outcome[p].ok
        /\ usedSession[q] = usedSession[p]
        /\ session = usedSession[p]

\* C9 (amended): when query calls run concurrently on a client that holds no
\* session, in no interleaving do two of them find the session missing: the
\* call that runs first creates and stores the session before it suspends,
\* the others reuse it, and the client retains the one session created.
C9_OneCallCreatesTheSession ==
    /\ Cardinality({ p \in Calls : sawNone[p] }) <= 1
    /\ Cardinality(created) <= 1
    /\ \A p \in Calls :
           sawNone[p] =>
               /\ session = create_http_session(p)
               /\ \A q \in Calls : pc[q] # "idle" => usedSession[q] = session

\* C9, witness: two calls are in flight together, neither yet resumed, on a
\* client constructed without a session, and one session has been created.
C9_Witness ==
    /\ supplied = "None"
    /\ pc[1] = "get" /\ pc[2] = "get"
    /\ ~resumed[1] /\ ~resumed[2]
    /\ Cardinality(created) = 1
    /\ usedSession[1] = usedSession[2]

\* C9 as stated, for the interleaving it describes: when two calls have both
\* started on a client constructed without a session and the event loop has
\* resumed neither, each has found the session missing.
C9_AsStated ==
    (/\ supplied = "None"
     /\ pc[1] # "idle" /\ pc[2] # "idle"
     /\ ~resumed[1] /\ ~resumed[2])
    => sawNone[1] /\ sawNone[2]

=============================================================================
